---------------------------- MODULE Spec2Model ----------------------------
(***************************************************************************)
(* A model of fetch_data.py, the FX-aware data pipeline of the stock data  *)
(* warehouse: the statement accessors (safe_get_row, get_ttm_value), the   *)
(* currency lookup (get_exchange_rate), the growth estimate                *)
(* (calculate_sane_growth_rate), the sector classifier (determine_sector), *)
(* the per-ticker assembler (fetch_stock_data) and the script itself       *)
(* (load_tickers_from_lists, main, and the two __main__ blocks).           *)
(*                                                                         *)
(* Representation of Python values.                                        *)
(*   - A str is a sequence of one-character strings, so that `in`          *)
(*     (substring), strip() and upper() are computed, not assumed.         *)
(*   - A dict entry is Absent (no key), NoneV (key with value None),       *)
(*     Num(n) or Str(s).                                                   *)
(*   - Floats are fixed-point integers: prices, P/E, PEG, beta, revenue    *)
(*     growth, exchange rates and the returned growth estimate are in      *)
(*     hundredths (1.0 is 100); market capitalisation is in units of 1e9   *)
(*     USD (TLC integers are 32 bits wide); statement cells are whole      *)
(*     local-currency units.  A quotient is kept as an exact fraction      *)
(*     Rat(n, d) in lowest terms; binary rounding of floats is not         *)
(*     modelled.                                                           *)
(*   - An exception is the value Raise, propagated by every operator that  *)
(*     the exception would unwind through.                                 *)
(*   - time.strftime (last_updated) reads the clock and is left out of the *)
(*     snapshot and the manifest.                                          *)
(***************************************************************************)
EXTENDS Integers, Sequences, FiniteSets, TLC

VARIABLES
    pc,              \* position of the script / of the function under test
    inp,             \* arguments of the function under test
    out,             \* its result
    lists_dir,       \* lists/*.txt : list name -> sequence of raw lines
    data_dir,        \* data/<ticker>.json : ticker -> NoFile, or the snapshot
                     \* written and the run of main() that wrote it
    manifest,        \* data/_manifest.json : NoFile or the list map
    run,             \* how many times main() has been entered
    list_map,        \* main(): list name -> tickers
    unique_tickers,  \* main(): the set being iterated
    todo,            \* main(): tickers the for loop has not reached yet
    success_count,   \* main(): success_count
    calls            \* history: per ticker, the calls of fetch_stock_data
                     \* (the run of main() and what the call returned)

vars == <<pc, inp, out, lists_dir, data_dir, manifest, run, list_map,
          unique_tickers, todo, success_count, calls>>

-----------------------------------------------------------------------------
(* Bounds of the model *)

MaxRowLen == 5
MaxAliases == 2
MaxLines == 2

-----------------------------------------------------------------------------
(* Python values *)

Absent == [k |-> "absent"]
NoneV == [k |-> "none"]
NaN == [k |-> "nan"]
Raise == [k |-> "raise"]
Num(n) == [k |-> "num", v |-> n]
Str(s) == [k |-> "str", v |-> s]

\* dict.get(key): None when the key is absent
Get(d, key) == IF d[key].k = "absent" THEN NoneV ELSE d[key]

\* dict.get(key, default): the default only when the key is absent
GetD(d, key, default) == IF d[key].k = "absent" THEN default ELSE d[key]

\* bool(x) for None, numbers and strings
Truthy(x) ==
    CASE x.k = "num" -> x.v # 0
      [] x.k = "str" -> x.v # <<>>
      [] OTHER -> FALSE

\* a or b
PyOr(a, b) == IF Truthy(a) THEN a ELSE b

RECURSIVE Gcd(_, _)
Gcd(a, b) == IF b = 0 THEN a ELSE Gcd(b, a % b)

Abs(n) == IF n < 0 THEN -n ELSE n

\* the exact quotient n / d (d # 0) in lowest terms, denominator positive
Rat(n, d) ==
    LET g == Gcd(Abs(n), Abs(d))
        s == IF d < 0 THEN -1 ELSE 1
    IN [k |-> "rat", n |-> (s * n) \div g, d |-> (s * d) \div g]

\* a > c for a fraction a and an integer c
RatGt(a, c) == a.n > c * a.d

\* round(x, 2) of the fraction x, as an integer number of hundredths
\* (round-half-even on the exact value)
Round2(x) ==
    LET m == 100 * x.n
        q == m \div x.d
        r == m % x.d
    IN IF 2 * r < x.d THEN q
       ELSE IF 2 * r > x.d THEN q + 1
       ELSE IF q % 2 = 0 THEN q ELSE q + 1

\* needle in hay, for two strings
Contains(needle, hay) ==
    \E i \in 0..(Len(hay) - Len(needle)) :
        \A j \in 1..Len(needle) : hay[i + j] = needle[j]

UpperChar(c) ==
    CASE c = "a" -> "A" [] c = "b" -> "B" [] c = "c" -> "C" [] c = "d" -> "D"
      [] c = "e" -> "E" [] c = "f" -> "F" [] c = "g" -> "G" [] c = "h" -> "H"
      [] c = "i" -> "I" [] c = "j" -> "J" [] c = "k" -> "K" [] c = "l" -> "L"
      [] c = "m" -> "M" [] c = "n" -> "N" [] c = "o" -> "O" [] c = "p" -> "P"
      [] c = "q" -> "Q" [] c = "r" -> "R" [] c = "s" -> "S" [] c = "t" -> "T"
      [] c = "u" -> "U" [] c = "v" -> "V" [] c = "w" -> "W" [] c = "x" -> "X"
      [] c = "y" -> "Y" [] c = "z" -> "Z"
      [] OTHER -> c

\* str.upper()
Upper(s) == [i \in DOMAIN s |-> UpperChar(s[i])]

IsSpace(c) == c \in {" ", "\t"}

\* str.strip(): the string without its leading and trailing whitespace
Strip(s) ==
    LET idx == {i \in DOMAIN s : ~IsSpace(s[i])}
    IN IF idx = {} THEN <<>>
       ELSE LET lo == CHOOSE i \in idx : \A j \in idx : i <= j
                hi == CHOOSE i \in idx : \A j \in idx : j <= i
            IN SubSeq(s, lo, hi)

-----------------------------------------------------------------------------
(* Statement tables.  A DataFrame is NoneV or [k |-> "df", index, rows]:   *)
(* index is the set of row names, rows[name] the row's cells newest first; *)
(* every row of a table has the same number of cells (the columns).        *)

EmptySeries == <<>>

DfEmpty(df) == df.index = {} \/ \A r \in df.index : Len(df.rows[r]) = 0

RECURSIVE FirstAlias(_, _, _)
FirstAlias(df, keys, i) ==
    IF i > Len(keys) THEN EmptySeries
    ELSE IF keys[i] \in df.index THEN df.rows[keys[i]]
    ELSE FirstAlias(df, keys, i + 1)

safe_get_row_last_match(df, keys) ==
    IF df.k = "none" \/ DfEmpty(df) THEN EmptySeries
    ELSE LET hits == {i \in DOMAIN keys : keys[i] \in df.index}
         IN IF hits = {} THEN EmptySeries
            ELSE df.rows[keys[CHOOSE i \in hits : \A j \in hits : j <= i]]

safe_get_row(df, keys) ==
    IF df.k = "none" \/ DfEmpty(df) THEN EmptySeries
    ELSE FirstAlias(df, keys, 1)

\* Series.fillna(0)
FillNa0(row) == [i \in DOMAIN row |-> IF row[i].k = "nan" THEN 0 ELSE row[i].v]

RECURSIVE SumSeq(_)
SumSeq(s) == IF s = <<>> THEN 0 ELSE s[1] + SumSeq(Tail(s))

\* row.iloc[:4]
Iloc4(row) == SubSeq(row, 1, IF Len(row) < 4 THEN Len(row) ELSE 4)

get_ttm_value_whole_row(quarterly_df, keys) ==
    LET row == safe_get_row(quarterly_df, keys)
    IN IF row = EmptySeries THEN 0 ELSE SumSeq(FillNa0(row))

get_ttm_value(quarterly_df, keys) ==
    LET row == safe_get_row(quarterly_df, keys)
    IN IF row = EmptySeries THEN 0 ELSE SumSeq(FillNa0(Iloc4(row)))

-----------------------------------------------------------------------------
(* Exchange rate.  fx is what yf.Ticker(pair).info gives: Raise, or a dict *)
(* of currentPrice, regularMarketPrice and previousClose.                  *)

USD == <<"U","S","D">>
RATE_ONE == 100

\* whether get_exchange_rate reaches its request (line 52)
FxRequested(currency_code) ==
    ~(~Truthy(currency_code) \/ Upper(currency_code.v) = USD)

get_exchange_rate_unchecked(currency_code, fx) ==
    IF ~FxRequested(currency_code) THEN RATE_ONE
    ELSE IF fx = Raise THEN RATE_ONE
    ELSE LET rate == PyOr(PyOr(Get(fx, "currentPrice"), Get(fx, "regularMarketPrice")),
                          Get(fx, "previousClose"))
         IN IF rate.k = "num" THEN rate.v ELSE 0

get_exchange_rate(currency_code, fx) ==
    IF ~FxRequested(currency_code) THEN RATE_ONE
    ELSE IF fx = Raise THEN RATE_ONE
    ELSE LET rate == PyOr(PyOr(Get(fx, "currentPrice"), Get(fx, "regularMarketPrice")),
                          Get(fx, "previousClose"))
         IN IF Truthy(rate) /\ rate.v > 0 THEN rate.v ELSE RATE_ONE

-----------------------------------------------------------------------------
(* Growth estimate *)

GIANT_CAP == 200
DEFAULT_REVENUE_GROWTH == 5
PE_LIMIT == 4000

calculate_sane_growth_rate(info) ==
    LET market_cap == GetD(info, "marketCap", Num(0))
        pe == Get(info, "trailingPE")
        peg == Get(info, "pegRatio")
        byPeg == Truthy(pe) /\ Truthy(peg) /\ peg.v > 0
        implied_growth == IF byPeg THEN Rat(pe.v, peg.v) ELSE Rat(0, 1)
        final_growth == IF implied_growth.n = 0
                        THEN Rat(PyOr(Get(info, "revenueGrowth"),
                                      Num(DEFAULT_REVENUE_GROWTH)).v, 1)
                        ELSE implied_growth
    IN \* None > 200_000_000_000 is a TypeError
       IF market_cap.k # "num" THEN Raise
       ELSE IF market_cap.v > GIANT_CAP
            THEN IF Truthy(pe) /\ pe.v < PE_LIMIT /\ RatGt(final_growth, 25)
                 THEN Num(2000)
                 ELSE IF RatGt(final_growth, 50) THEN Num(4500)
                 ELSE Num(Round2(final_growth))
            ELSE Num(Round2(final_growth))

-----------------------------------------------------------------------------
(* Sector classifier.  Each rule is the `or` chain of one if statement, in *)
(* source order: <<keyword, field>> tests and the bucket returned.         *)

SECTOR_RULES == <<
    [tests |-> << <<<<"S","e","m","i","c","o","n","d","u","c","t","o","r">>, "industry">>, <<<<"S","e","m","i","c","o","n","d","u","c","t","o","r">>, "sector">> >>,
     bucket |-> "Semiconductor"],
    [tests |-> << <<<<"S","o","f","t","w","a","r","e">>, "industry">>, <<<<"T","e","c","h","n","o","l","o","g","y"," ","S","e","r","v","i","c","e","s">>, "sector">> >>,
     bucket |-> "SaaS"],
    [tests |-> << <<<<"C","o","n","s","u","m","e","r"," ","E","l","e","c","t","r","o","n","i","c","s">>, "industry">>,
                  <<<<"C","o","m","p","u","t","e","r"," ","H","a","r","d","w","a","r","e">>, "industry">> >>,
     bucket |-> "Hardware"],
    [tests |-> << <<<<"B","a","n","k">>, "industry">>, <<<<"F","i","n","a","n","c","i","a","l">>, "sector">>,
                  <<<<"C","r","e","d","i","t">>, "industry">> >>,
     bucket |-> "Financial"],
    [tests |-> << <<<<"B","i","o","t","e","c","h","n","o","l","o","g","y">>, "industry">>, <<<<"D","r","u","g">>, "industry">> >>,
     bucket |-> "BioTech"] >>

\* one `or` chain, left to right with short circuit: "T", "F", or "E" when
\* `in` meets a value that is not a string (TypeError)
RECURSIVE EvalOr(_, _, _)
EvalOr(tests, fields, i) ==
    IF i > Len(tests) THEN "F"
    ELSE LET hay == fields[tests[i][2]]
         IN IF hay.k # "str" THEN "E"
            ELSE IF Contains(tests[i][1], hay.v) THEN "T"
            ELSE EvalOr(tests, fields, i + 1)

RECURSIVE FirstRule(_, _, _)
FirstRule(rules, fields, i) ==
    IF i > Len(rules) THEN Str("General")
    ELSE LET r == EvalOr(rules[i].tests, fields, 1)
         IN IF r = "E" THEN Raise
            ELSE IF r = "T" THEN Str(rules[i].bucket)
            ELSE FirstRule(rules, fields, i + 1)

determine_sector(info) ==
    LET fields == [sector |-> GetD(info, "sector", Str(<<>>)),
                   industry |-> GetD(info, "industry", Str(<<>>))]
    IN FirstRule(SECTOR_RULES, fields, 1)

-----------------------------------------------------------------------------
(* fetch_stock_data.  resp is what the provider gives for the ticker: info *)
(* (Raise or a dict), fx (the answer to an exchange-rate request) and the  *)
(* three quarterly tables (Raise, NoneV or a DataFrame).                   *)

InfoKeys == {"currentPrice", "previousClose", "financialCurrency",
             "sharesOutstanding", "marketCap", "trailingPE", "pegRatio",
             "revenueGrowth", "forwardEps", "shortName", "longName", "beta",
             "sector", "industry"}

\* local / fx_rate; NaN stays NaN
ToUSD(local, fx_rate) ==
    IF local.k = "nan" THEN NaN ELSE Rat(local.v * RATE_ONE, fx_rate)

RECURSIVE FirstInColumn(_, _, _)
\* for k in keys: if k in recent_bs: value = float(recent_bs[k]); break
FirstInColumn(q_balance, keys, i) ==
    IF i > Len(keys) THEN Num(0)
    ELSE IF keys[i] \in q_balance.index THEN q_balance.rows[keys[i]][1]
    ELSE FirstInColumn(q_balance, keys, i + 1)

ADR_RATE == 500

\* the reference-currency shortcut dropped: the provider is asked for a
\* rate whatever the currency is
fx_rate_for_always_asks(info, fx) ==
    [rate |-> get_exchange_rate(Str(<<"A","N","Y">>), fx), requested |-> TRUE]

\* lines 124-129: the rate the aggregates are divided by, and whether an
\* exchange-rate request went to the provider
fx_rate_for(info, fx) ==
    LET fin_currency == GetD(info, "financialCurrency", Str(USD))
    IN IF fin_currency # Str(USD)
       THEN [rate |-> get_exchange_rate(fin_currency, fx),
             requested |-> FxRequested(fin_currency)]
       ELSE [rate |-> RATE_ONE, requested |-> FALSE]

\* the body of the try block: ret is the dict returned, NoneV, or Raise;
\* fx_rate is the rate the aggregates are divided by (NoneV when the body
\* leaves before line 125); fx_requested tells whether an exchange-rate
\* request went to the provider
fetch_stock_data_try(ticker_symbol, resp) ==
    LET info == resp.info
        left(r) == [ret |-> r, fx_rate |-> NoneV, fx_requested |-> FALSE]
    IN
    IF info = Raise THEN left(Raise)
    ELSE
    LET price == PyOr(Get(info, "currentPrice"), Get(info, "previousClose"))
    IN
    IF ~Truthy(price) THEN left(NoneV)
    ELSE
    LET fx_rate == fx_rate_for(info, resp.fx).rate
        requested == fx_rate_for(info, resp.fx).requested
        at(r) == [ret |-> r, fx_rate |-> Num(fx_rate), fx_requested |-> requested]
        q_cashflow == resp.q_cashflow
        q_income == resp.q_income
        q_balance == resp.q_balance
    IN
    IF "raise" \in {q_cashflow.k, q_income.k, q_balance.k} THEN at(Raise)
    ELSE
    LET raw_rev == get_ttm_value(q_income, <<"Total Revenue", "Operating Revenue">>)
        raw_ocf == get_ttm_value(q_cashflow, <<"Operating Cash Flow",
                                               "Total Cash From Operating Activities">>)
        raw_capex == Abs(get_ttm_value(q_cashflow, <<"Capital Expenditure",
                                                     "Capital Expenditures">>))
        raw_sbc == get_ttm_value(q_cashflow, <<"Stock Based Compensation",
                                               "Issuance Of Stock">>)
        raw_buyback == Abs(get_ttm_value(q_cashflow,
                               <<"Repurchase Of Capital Stock",
                                 "Common Stock Repurchased",
                                 "Purchase Of Treasury Stock">>))
        shares == GetD(info, "sharesOutstanding", Num(0))
    IN
    \* None has no attribute `empty`
    IF q_balance.k = "none" THEN at(Raise)
    ELSE
    LET raw_debt == IF DfEmpty(q_balance) THEN Num(0)
                    ELSE FirstInColumn(q_balance, <<"Total Debt", "Long Term Debt">>, 1)
        raw_cash == IF DfEmpty(q_balance) THEN Num(0)
                    ELSE FirstInColumn(q_balance, <<"Cash And Cash Equivalents",
                                                    "Cash Financial">>, 1)
    IN
    \* a rate of zero would be a ZeroDivisionError
    IF fx_rate = 0 THEN at(Raise)
    ELSE
    LET growth_rate == calculate_sane_growth_rate(info)
        raw_fwd_eps == GetD(info, "forwardEps", Num(0))
    IN
    IF growth_rate.k = "raise" THEN at(Raise)
    \* None > 0 is a TypeError, reached only when fx_rate > 5
    ELSE IF fx_rate > ADR_RATE /\ raw_fwd_eps.k # "num" THEN at(Raise)
    ELSE
    LET forward_eps == IF fx_rate > ADR_RATE /\ raw_fwd_eps.v > 0
                       THEN ToUSD(raw_fwd_eps, fx_rate)
                       ELSE raw_fwd_eps
        sector_type == determine_sector(info)
    IN
    IF sector_type.k = "raise" THEN at(Raise)
    ELSE at([k |-> "data",
             ticker |-> ticker_symbol,
             name |-> PyOr(Get(info, "shortName"), Get(info, "longName")),
             price |-> price,
             market_cap |-> GetD(info, "marketCap", Num(0)),
             revenue_ttm |-> ToUSD(Num(raw_rev), fx_rate),
             ocf_ttm |-> ToUSD(Num(raw_ocf), fx_rate),
             capex_ttm |-> ToUSD(Num(raw_capex), fx_rate),
             sbc_ttm |-> ToUSD(Num(raw_sbc), fx_rate),
             buyback_ttm |-> ToUSD(Num(raw_buyback), fx_rate),
             total_debt |-> ToUSD(raw_debt, fx_rate),
             cash_and_equivalents |-> ToUSD(raw_cash, fx_rate),
             shares_outstanding |-> shares,
             beta |-> GetD(info, "beta", Num(100)),
             analyst_growth_estimate |-> growth_rate,
             forward_eps |-> forward_eps,
             sector_type |-> sector_type.v,
             currency_code |-> USD])

\* the function without its except clause
fetch_stock_data_uncaught(ticker_symbol, resp) ==
    fetch_stock_data_try(ticker_symbol, resp).ret

\* try: ... except Exception: return None
fetch_stock_data(ticker_symbol, resp) ==
    LET r == fetch_stock_data_try(ticker_symbol, resp).ret
    IN IF r.k = "raise" THEN NoneV ELSE r

-----------------------------------------------------------------------------
(* The script: load_tickers_from_lists, main, and the __main__ blocks.     *)

AAPL == <<"A","A","P","L">>
TSM == <<"T","S","M">>
PDD == <<"P","D","D">>
AllTickers == {AAPL, TSM, PDD}

NoFile == [k |-> "nofile"]
EmptyInfo == [key \in InfoKeys |-> Absent]
Df(rows) == [k |-> "df", index |-> DOMAIN rows, rows |-> rows]
NoRows == [r \in {} |-> <<>>]
Quote(a, b, c) == [currentPrice |-> a, regularMarketPrice |-> b, previousClose |-> c]
Nums(s) == [i \in DOMAIN s |-> Num(s[i])]

\* the number of `if __name__ == "__main__": main()` blocks the script runs
MAIN_BLOCKS == 2

\* what the provider holds for each ticker of the lists during one execution
ProviderData(t) ==
    CASE t = AAPL ->
           [info |-> [EmptyInfo EXCEPT !.currentPrice = Num(22500),
                         !.financialCurrency = Str(USD), !.marketCap = Num(3400),
                         !.trailingPE = Num(3400), !.pegRatio = Num(200),
                         !.beta = Num(125), !.forwardEps = Num(750),
                         !.sharesOutstanding = Num(15),
                         !.shortName = Str(<<"A","p","p","l","e">>),
                         !.sector = Str(<<"T","e","c","h","n","o","l","o","g","y">>),
                         !.industry = Str(<<"C","o","n","s","u","m","e","r"," ","E","l","e","c","t","r","o","n","i","c","s">>)],
            fx |-> Raise,
            q_income |-> Df("Total Revenue" :> Nums(<<90, 85, 95, 120>>)),
            q_cashflow |-> Df(("Operating Cash Flow" :> Nums(<<30, 28, 25, 40>>)) @@
                              ("Capital Expenditure" :> Nums(<<-3, -2, -3, -4>>)) @@
                              ("Repurchase Of Capital Stock" :> Nums(<<-20, -25, -22, -24>>))),
            q_balance |-> Df(("Total Debt" :> Nums(<<100, 105, 110, 111>>)) @@
                             ("Cash And Cash Equivalents" :> Nums(<<60, 55, 50, 48>>)))]
      [] t = TSM ->
           [info |-> [EmptyInfo EXCEPT !.currentPrice = Num(19000),
                         !.financialCurrency = Str(<<"T","W","D">>), !.marketCap = Num(900),
                         !.trailingPE = Num(2800), !.pegRatio = Num(100),
                         !.forwardEps = Num(30000),
                         !.longName = Str(<<"T","S","M","C">>),
                         !.sector = Str(<<"T","e","c","h","n","o","l","o","g","y">>),
                         !.industry = Str(<<"S","e","m","i","c","o","n","d","u","c","t","o","r","s">>)],
            fx |-> Quote(NoneV, Num(3250), Num(3240)),
            q_income |-> Df("Operating Revenue" :> <<Num(800), Num(760), NaN>>),
            q_cashflow |-> Df("Operating Cash Flow" :> Nums(<<400, 390, 380>>)),
            q_balance |-> Df("Long Term Debt" :> Nums(<<950, 900, 880>>))]
      [] OTHER ->
           [info |-> [EmptyInfo EXCEPT !.previousClose = Num(11000),
                         !.financialCurrency = Str(<<"C","N","Y">>), !.marketCap = Num(150),
                         !.revenueGrowth = Num(60),
                         !.shortName = Str(<<"P","D","D">>)],
            fx |-> Quote(Absent, Absent, Num(725)),
            q_income |-> Df("Total Revenue" :> Nums(<<100, 90>>)),
            q_cashflow |-> Df(NoRows),
            q_balance |-> Df(NoRows)]

\* the provider's answers to one fetch of t: its data, or a failure of the
\* info request, or of a statement request
ProviderResponses(t) ==
    { ProviderData(t),
      [ProviderData(t) EXCEPT !.info = Raise],
      [ProviderData(t) EXCEPT !.q_cashflow = Raise] }

Range(f) == {f[x] : x \in DOMAIN f}

\* [line.strip().upper() for line in f if line.strip()]
TickersOfLines(lines) ==
    LET F[i \in 0..Len(lines)] ==
            IF i = 0 THEN <<>>
            ELSE IF Strip(lines[i]) # <<>>
                 THEN Append(F[i - 1], Upper(Strip(lines[i])))
                 ELSE F[i - 1]
    IN F[Len(lines)]

\* returns the directory (a sample list is created when it holds no list),
\* the list map and the set of unique tickers
load_tickers_from_lists(dir) ==
    LET dir2 == IF DOMAIN dir = {} THEN ("sample" :> <<AAPL, TSM, PDD>>) ELSE dir
        lm == [n \in DOMAIN dir2 |-> TickersOfLines(dir2[n])]
    IN [lists_dir |-> dir2,
        list_map |-> lm,
        unique_tickers |-> UNION {Range(lm[n]) : n \in DOMAIN lm}]

\* main(), lines 246-252: the lists are loaded and the counter reset
MainLoad ==
    /\ pc = "main"
    /\ LET l == load_tickers_from_lists(lists_dir)
       IN /\ lists_dir' = l.lists_dir
          /\ list_map' = l.list_map
          /\ unique_tickers' = l.unique_tickers
          /\ todo' = l.unique_tickers
    /\ success_count' = 0
    /\ run' = run + 1
    /\ pc' = "loop"
    /\ UNCHANGED <<inp, out, data_dir, manifest, calls>>

\* one iteration of the for loop, lines 253-263 (a set is iterated in an
\* order the program does not choose)
MainLoopStep ==
    /\ pc = "loop"
    /\ \E ticker \in todo : \E resp \in ProviderResponses(ticker) :
         LET data == fetch_stock_data(ticker, resp)
         IN IF data.k = "raise"
            THEN \* an exception leaving fetch_stock_data ends main()
                 /\ pc' = "crashed"
                 /\ UNCHANGED <<todo, data_dir, success_count, calls>>
            ELSE /\ pc' = pc
                 /\ todo' = todo \ {ticker}
                 /\ data_dir' = IF data.k = "data"
                                THEN [data_dir EXCEPT ![ticker] =
                                        [k |-> "file", content |-> data, mtime |-> run]]
                                ELSE data_dir
                 /\ success_count' = IF data.k = "data" THEN success_count + 1
                                     ELSE success_count
                 /\ calls' = [calls EXCEPT ![ticker] =
                                Append(@, [run |-> run, ret |-> data.k])]
    /\ UNCHANGED <<inp, out, lists_dir, manifest, run, list_map, unique_tickers>>

\* lines 265-272: the manifest is written and main() returns; the script
\* goes on to its next __main__ block, or ends
MainManifest ==
    /\ pc = "loop"
    /\ todo = {}
    /\ manifest' = [lists |-> list_map, run |-> run, updated |-> success_count]
    /\ pc' = IF run < MAIN_BLOCKS THEN "main" ELSE "exit"
    /\ UNCHANGED <<inp, out, lists_dir, data_dir, run, list_map, unique_tickers,
                   todo, success_count, calls>>

SeqsUpTo(S, n) == UNION {[1..m -> S] : m \in 0..n}

\* the raw lines a list file may hold (the line end is among the blanks
\* strip() removes)
RawLines == {<<"A","A","P","L">>, <<"a","a","p","l"," ">>, <<" ","T","S","M">>, <<>>}

ListDirs ==
    { g @@ v : g \in {NoRows} \cup {"growth" :> ls : ls \in SeqsUpTo(RawLines, MaxLines)},
               v \in {NoRows, "value" :> <<<<" ","t","s","m"," ">>>>, "value" :> <<<<"P","D","D">>, <<"A","A","P","L">>>>} }

Init ==
    /\ pc = "main"
    /\ inp = NoneV
    /\ out = NoneV
    /\ lists_dir \in ListDirs
    /\ data_dir = [t \in AllTickers |-> NoFile]
    /\ manifest = NoFile
    /\ run = 0
    /\ list_map = NoRows
    /\ unique_tickers = {}
    /\ todo = {}
    /\ success_count = 0
    /\ calls = [t \in AllTickers |-> <<>>]

Next == MainLoad \/ MainLoopStep \/ MainManifest

Spec == Init /\ [][Next]_vars

-----------------------------------------------------------------------------
(* The helper functions, each applied once to arguments drawn from a       *)
(* bounded set.                                                            *)

Idle ==
    /\ lists_dir = NoRows
    /\ data_dir = [t \in AllTickers |-> NoFile]
    /\ manifest = NoFile
    /\ run = 0
    /\ list_map = NoRows
    /\ unique_tickers = {}
    /\ todo = {}
    /\ success_count = 0
    /\ calls = [t \in AllTickers |-> <<>>]

Return(v) ==
    /\ out' = v
    /\ pc' = "ret"
    /\ UNCHANGED <<inp, lists_dir, data_dir, manifest, run, list_map,
                   unique_tickers, todo, success_count, calls>>

RowNames == {"Total Revenue", "Operating Revenue", "Net Income"}
RowCode(r) == CASE r = "Total Revenue" -> 1 [] r = "Operating Revenue" -> 2 [] OTHER -> 3

\* tables whose rows differ from one another, with n columns
DistinctTable(S, n) == Df([r \in S |-> [i \in 1..n |-> Num(10 * RowCode(r) + i)]])

SafeGetRowInputs ==
    { [fn |-> "safe_get_row", df |-> df, keys |-> keys] :
        df \in {NoneV} \cup {DistinctTable(S, n) : S \in SUBSET RowNames, n \in {0, 2}},
        keys \in SeqsUpTo(RowNames, MaxAliases) }

Cells == {NaN, Num(10), Num(999)}

\* rows of every length up to MaxRowLen, and the rows [10, 20, 30, 40, 999]
\* and [10, 20, 30, 40]
TtmRows ==
    SeqsUpTo(Cells, MaxRowLen)
    \cup {Nums(<<10, 20, 30, 40, 999>>), Nums(<<10, 20, 30, 40>>)}
REVENUE_KEYS == <<"Total Revenue", "Operating Revenue">>

GetTtmValueInputs ==
    { [fn |-> "get_ttm_value", df |-> df, keys |-> REVENUE_KEYS] :
        df \in {NoneV, Df(NoRows)}
               \cup {Df("Total Revenue" :> row) : row \in TtmRows}
               \cup {Df(("Operating Revenue" :> row) @@
                        ("Net Income" :> [i \in DOMAIN row |-> Num(7)])) :
                        row \in TtmRows} }

QuoteValues == {Absent, NoneV, Num(0), Num(-725), Num(3250)}

FxAnswers ==
    {Raise} \cup {Quote(a, b, c) : a \in QuoteValues, b \in QuoteValues, c \in QuoteValues}

CurrencyCodes == {NoneV, Str(<<>>), Str(<<"U","S","D">>), Str(<<"u","s","d">>), Str(<<"T","W","D">>), Str(<<"t","w","d">>)}

GetExchangeRateInputs ==
    { [fn |-> "get_exchange_rate", currency_code |-> c, fx |-> fx] :
        c \in CurrencyCodes, fx \in FxAnswers }

GrowthInfos ==
    { [EmptyInfo EXCEPT !.marketCap = mc, !.trailingPE = pe, !.pegRatio = peg,
                        !.revenueGrowth = rg] :
        mc \in {Absent, NoneV, Num(50), Num(200), Num(201), Num(500), Num(501), Num(3000)},
        pe \in {Absent, NoneV, Num(0), Num(-500), Num(1500), Num(3999), Num(4000),
                Num(5000), Num(10000)},
        peg \in {Absent, NoneV, Num(0), Num(-100), Num(50), Num(100), Num(150), Num(200)},
        rg \in {Absent, NoneV, Num(0), Num(-10), Num(3), Num(25), Num(40), Num(60)} }

CalculateSaneGrowthRateInputs ==
    { [fn |-> "calculate_sane_growth_rate", info |-> i] : i \in GrowthInfos }

Sectors == {Absent, NoneV, Str(<<>>), Str(<<"T","e","c","h","n","o","l","o","g","y">>), Str(<<"T","e","c","h","n","o","l","o","g","y"," ","S","e","r","v","i","c","e","s">>),
            Str(<<"F","i","n","a","n","c","i","a","l"," ","S","e","r","v","i","c","e","s">>), Str(<<"H","e","a","l","t","h","c","a","r","e">>), Str(<<"R","e","a","l"," ","E","s","t","a","t","e">>),
            Str(<<"S","e","m","i","c","o","n","d","u","c","t","o","r","s">>)}

Industries == {Absent, NoneV, Str(<<>>), Str(<<"S","e","m","i","c","o","n","d","u","c","t","o","r","s">>),
               Str(<<"S","o","f","t","w","a","r","e"," ","-"," ","I","n","f","r","a","s","t","r","u","c","t","u","r","e">>), Str(<<"C","o","n","s","u","m","e","r"," ","E","l","e","c","t","r","o","n","i","c","s">>),
               Str(<<"C","o","m","p","u","t","e","r"," ","H","a","r","d","w","a","r","e">>), Str(<<"B","a","n","k","s"," ","-"," ","D","i","v","e","r","s","i","f","i","e","d">>),
               Str(<<"C","r","e","d","i","t"," ","S","e","r","v","i","c","e","s">>), Str(<<"B","i","o","t","e","c","h","n","o","l","o","g","y">>),
               Str(<<"D","r","u","g"," ","M","a","n","u","f","a","c","t","u","r","e","r","s">>), Str(<<"O","i","l"," ","&"," ","G","a","s">>), Str(<<"R","E","I","T"," ","-"," ","O","f","f","i","c","e">>)}

SectorInfos ==
    { [EmptyInfo EXCEPT !.sector = sec, !.industry = ind] :
        sec \in Sectors, ind \in Industries }

DetermineSectorInputs ==
    { [fn |-> "determine_sector", info |-> i] : i \in SectorInfos }

CallSafeGetRow ==
    /\ pc = "call" /\ inp.fn = "safe_get_row"
    /\ Return(safe_get_row(inp.df, inp.keys))

CallGetTtmValue ==
    /\ pc = "call" /\ inp.fn = "get_ttm_value"
    /\ Return(get_ttm_value(inp.df, inp.keys))

CallGetExchangeRate ==
    /\ pc = "call" /\ inp.fn = "get_exchange_rate"
    /\ Return([rate |-> get_exchange_rate(inp.currency_code, inp.fx),
               requested |-> FxRequested(inp.currency_code)])

CallCalculateSaneGrowthRate ==
    /\ pc = "call" /\ inp.fn = "calculate_sane_growth_rate"
    /\ Return(calculate_sane_growth_rate(inp.info))

CallDetermineSector ==
    /\ pc = "call" /\ inp.fn = "determine_sector"
    /\ Return(determine_sector(inp.info))

InitHelpers ==
    /\ pc = "call"
    /\ inp \in SafeGetRowInputs \cup GetTtmValueInputs \cup GetExchangeRateInputs
               \cup CalculateSaneGrowthRateInputs \cup DetermineSectorInputs
    /\ out = NoneV
    /\ Idle

NextHelpers ==
    \/ CallSafeGetRow
    \/ CallGetTtmValue
    \/ CallGetExchangeRate
    \/ CallCalculateSaneGrowthRate
    \/ CallDetermineSector

SpecHelpers == InitHelpers /\ [][NextHelpers]_vars

-----------------------------------------------------------------------------
(* fetch_stock_data applied once to a provider answer drawn from a bounded *)
(* set: every field of the info snapshot absent, None or given, every      *)
(* table absent, empty or given, every kind of exchange-rate answer.       *)

PriceCases == { <<Absent, Absent>>, <<Num(0), Absent>>, <<Num(15000), Absent>>,
                <<NoneV, Num(14800)>> }

GoodQuote == Quote(Num(3250), Absent, Absent)

\* <<financialCurrency, answer to an exchange-rate request>>
CurrencyCases ==
    { <<Absent, GoodQuote>>, <<NoneV, GoodQuote>>, <<Str(<<"U","S","D">>), GoodQuote>>,
      <<Str(<<"u","s","d">>), GoodQuote>>, <<Str(<<>>), GoodQuote>>,
      <<Str(<<"T","W","D">>), GoodQuote>>, <<Str(<<"T","W","D">>), Raise>>,
      <<Str(<<"T","W","D">>), Quote(Absent, Absent, Absent)>>,
      <<Str(<<"T","W","D">>), Quote(Num(0), NoneV, Absent)>>,
      <<Str(<<"T","W","D">>), Quote(Num(-725), Num(3250), Absent)>>,
      <<Str(<<"T","W","D">>), Quote(Absent, Absent, Num(725))>>,
      <<Str(<<"e","u","r">>), Quote(Num(92), Absent, Absent)>> }

\* <<marketCap, trailingPE, pegRatio, revenueGrowth>>
GrowthCases ==
    { <<Absent, Absent, Absent, Absent>>, <<NoneV, Absent, Absent, Absent>>,
      <<Num(600), Num(5000), Num(100), Absent>>, <<Num(600), Num(3000), Num(150), Absent>>,
      <<Num(50), Num(3000), Num(150), Absent>>, <<Num(600), NoneV, Absent, Num(40)>> }

\* <<beta, sector, industry>>
BetaSectorCases ==
    { <<Absent, Str(<<"T","e","c","h","n","o","l","o","g","y">>), Str(<<"S","o","f","t","w","a","r","e"," ","-"," ","I","n","f","r","a","s","t","r","u","c","t","u","r","e">>)>>,
      <<NoneV, Absent, Absent>>,
      <<Num(5), Str(<<"T","e","c","h","n","o","l","o","g","y">>), Str(<<"S","o","f","t","w","a","r","e"," ","-"," ","I","n","f","r","a","s","t","r","u","c","t","u","r","e">>)>>,
      <<Num(5), Str(<<"E","n","e","r","g","y">>), Str(<<"O","i","l"," ","&"," ","G","a","s">>)>>,
      <<Num(110), Str(<<"T","e","c","h","n","o","l","o","g","y">>), Str(<<"S","o","f","t","w","a","r","e"," ","-"," ","I","n","f","r","a","s","t","r","u","c","t","u","r","e">>)>>,
      <<Num(300), Absent, Absent>>,
      <<Num(300), Str(<<"F","i","n","a","n","c","i","a","l"," ","S","e","r","v","i","c","e","s">>), Str(<<"B","i","o","t","e","c","h","n","o","l","o","g","y">>)>>,
      <<Num(110), NoneV, Absent>> }

EpsCases == {Absent, NoneV, Num(650)}

FullIncome == Df("Total Revenue" :> Nums(<<100, 100, 100, 100>>))
FullCashflow == Df(("Operating Cash Flow" :> Nums(<<30, 30, 30, 30>>)) @@
                   ("Capital Expenditure" :> Nums(<<-10, -10, -10, -10>>)) @@
                   ("Issuance Of Stock" :> Nums(<<2, 2, 2, 2>>)) @@
                   ("Common Stock Repurchased" :> Nums(<<-5, -5, -5, -5>>)))
FullBalance == Df(("Total Debt" :> Nums(<<70, 60, 50, 40>>)) @@
                  ("Long Term Debt" :> Nums(<<55, 50, 45, 40>>)) @@
                  ("Cash Financial" :> Nums(<<33, 30, 30, 30>>)))

\* <<q_income, q_cashflow, q_balance>>
TableCases ==
    { <<FullIncome, FullCashflow, FullBalance>>,
      <<Df(NoRows), Df(NoRows), Df(NoRows)>>,
      <<NoneV, NoneV, Df(NoRows)>>,
      <<FullIncome, FullCashflow, NoneV>>,
      <<FullIncome, Raise, FullBalance>>,
      <<Df("Operating Revenue" :> <<Num(10), NaN, Num(30), Num(40), Num(999)>>),
        Df("Net Income" :> Nums(<<1, 1, 1, 1, 1>>)),
        Df("Long Term Debt" :> <<NaN, Num(50), Num(50), Num(50), Num(50)>>)>> }

FetchAnswers ==
    { [info |-> Raise, fx |-> Raise, q_income |-> FullIncome,
       q_cashflow |-> FullCashflow, q_balance |-> FullBalance] }
    \cup
    { [info |-> [EmptyInfo EXCEPT !.currentPrice = p[1], !.previousClose = p[2],
                     !.financialCurrency = c[1],
                     !.marketCap = g[1], !.trailingPE = g[2], !.pegRatio = g[3],
                     !.revenueGrowth = g[4],
                     !.beta = b[1], !.sector = b[2], !.industry = b[3],
                     !.forwardEps = e],
       fx |-> c[2], q_income |-> t[1], q_cashflow |-> t[2], q_balance |-> t[3]] :
        p \in PriceCases, c \in CurrencyCases, g \in GrowthCases,
        b \in BetaSectorCases, e \in EpsCases, t \in TableCases }

CallFetchStockData ==
    /\ pc = "call" /\ inp.fn = "fetch_stock_data"
    /\ Return([data |-> fetch_stock_data(inp.ticker, inp.resp),
               fx_rate |-> fetch_stock_data_try(inp.ticker, inp.resp).fx_rate,
               fx_requested |-> fetch_stock_data_try(inp.ticker, inp.resp).fx_requested])

InitFetch ==
    /\ pc = "call"
    /\ inp \in { [fn |-> "fetch_stock_data", ticker |-> AAPL, resp |-> r] :
                   r \in FetchAnswers } \cup GetExchangeRateInputs
    /\ out = NoneV
    /\ Idle

NextFetch == CallFetchStockData \/ CallGetExchangeRate

SpecFetch == InitFetch /\ [][NextFetch]_vars

-----------------------------------------------------------------------------
(* Properties of the helper functions, checked under SpecHelpers.          *)

Returned(fn) == pc = "ret" /\ inp.fn = fn

\* C2: mega-cap gravity.  For every info snapshot whose marketCap is above
\* 500e9, whatever the trailing P/E, the PEG and the revenue growth, the
\* estimate calculate_sane_growth_rate returns is at most 30 (an implied
\* growth of 50 comes back as a value <= 30).
C2_MegaCapGravity ==
    (Returned("calculate_sane_growth_rate")
       /\ inp.info.marketCap.k = "num" /\ inp.info.marketCap.v > 500)
    => (out.k = "num" /\ out.v <= 3000)

\* the keywords the rules look for in the industry string
IndustryKeywordsOfRules ==
    UNION { { SECTOR_RULES[i].tests[j][1] :
                j \in {n \in DOMAIN SECTOR_RULES[i].tests :
                         SECTOR_RULES[i].tests[n][2] = "industry"} } :
            i \in DOMAIN SECTOR_RULES }

SectorKeywordsOfRules ==
    UNION { { SECTOR_RULES[i].tests[j][1] :
                j \in {n \in DOMAIN SECTOR_RULES[i].tests :
                         SECTOR_RULES[i].tests[n][2] = "sector"} } :
            i \in DOMAIN SECTOR_RULES }

Buckets == {"Semiconductor", "SaaS", "Hardware", "BioTech", "Financial",
            "Energy/Utility", "REIT", "General"}

\* C4: determine_sector returns one bucket of the fixed set for every pair
\* of sector and industry strings; when the industry string matches an
\* industry keyword the sector string does not decide the bucket (the
\* bucket is the one the industry alone gives); input that matches no
\* keyword gives General.
C4_IndustryPrecedence ==
    LET sector == GetD(inp.info, "sector", Str(<<>>))
        industry == GetD(inp.info, "industry", Str(<<>>))
    IN (Returned("determine_sector") /\ sector.k = "str" /\ industry.k = "str")
       => /\ out.k = "str" /\ out.v \in Buckets
          /\ (\E kw \in IndustryKeywordsOfRules : Contains(kw, industry.v))
               => out = determine_sector([inp.info EXCEPT !.sector = Str(<<>>)])
          /\ (/\ \A kw \in IndustryKeywordsOfRules : ~Contains(kw, industry.v)
              /\ \A kw \in SectorKeywordsOfRules : ~Contains(kw, sector.v))
               => out.v = "General"

CellOrZero(row, i) == IF i <= Len(row) /\ row[i].k = "num" THEN row[i].v ELSE 0

\* the row the revenue aliases select in the tables of GetTtmValueInputs
RevenueRow(df) ==
    IF df.k = "none" THEN <<>>
    ELSE IF "Total Revenue" \in df.index THEN df.rows["Total Revenue"]
    ELSE IF "Operating Revenue" \in df.index THEN df.rows["Operating Revenue"]
    ELSE <<>>

\* C7: get_ttm_value returns the sum of the first four entries of the row,
\* a missing entry counted as zero and every entry after the fourth
\* ignored; it returns 0 when the row or the table is absent or empty.
C7_TtmFirstFour ==
    Returned("get_ttm_value")
    => LET row == RevenueRow(inp.df)
       IN out = CellOrZero(row, 1) + CellOrZero(row, 2)
                + CellOrZero(row, 3) + CellOrZero(row, 4)

\* ttm([10,20,30,40,999]) == 100, ttm([10]) == 10 and ttm([]) == 0 are
\* among the cases; this is the first
C7_Witness ==
    /\ Returned("get_ttm_value")
    /\ inp.df.k = "df" /\ inp.df.index = {"Total Revenue"}
    /\ inp.df.rows["Total Revenue"] = Nums(<<10, 20, 30, 40, 999>>)
    /\ out = 100

\* C8: safe_get_row returns the row of the earliest alias of the list that
\* is present in the table, and the empty result when no alias is present
\* or the table is absent or empty.
C8_FirstAliasWins ==
    Returned("safe_get_row")
    => IF inp.df.k = "none" THEN out = <<>>
       ELSE IF inp.df.index = {} \/ \A r \in inp.df.index : inp.df.rows[r] = <<>>
            THEN out = <<>>
       ELSE /\ (\A i \in DOMAIN inp.keys : inp.keys[i] \notin inp.df.index)
                 => out = <<>>
            /\ \A i \in DOMAIN inp.keys :
                 (/\ inp.keys[i] \in inp.df.index
                  /\ \A j \in 1..(i - 1) : inp.keys[j] \notin inp.df.index)
                 => out = inp.df.rows[inp.keys[i]]

\* aliases [A, B] with both present: A's row
C8_Witness ==
    /\ Returned("safe_get_row")
    /\ inp.keys = <<"Total Revenue", "Operating Revenue">>
    /\ inp.df.k = "df"
    /\ {"Total Revenue", "Operating Revenue"} \subseteq inp.df.index
    /\ out = inp.df.rows["Total Revenue"]
    /\ out # <<>>
    /\ out # inp.df.rows["Operating Revenue"]

-----------------------------------------------------------------------------
(* Properties of fetch_stock_data and get_exchange_rate, checked under     *)
(* SpecFetch.                                                              *)

\* fetch_stock_data got as far as choosing the rate (a price was found)
RateChosen == Returned("fetch_stock_data") /\ out.fx_rate.k = "num"

Emitted == Returned("fetch_stock_data") /\ out.data.k = "data"

\* C3: the beta of every emitted snapshot is sanitized: a raw beta above
\* 2.5 gives exactly 2.5 for any sector and market cap, a raw beta of 0.05
\* for a security classified SaaS gives exactly 1.2, an absent beta gives
\* 1.0.
C3_BetaSanitized ==
    Emitted
    => LET raw == inp.resp.info.beta
       IN /\ (raw.k = "num" /\ raw.v > 250) => out.data.beta = Num(250)
          /\ (raw = Num(5) /\ out.data.sector_type = "SaaS") => out.data.beta = Num(120)
          /\ raw = Absent => out.data.beta = Num(100)

\* x as the fraction x / 1
Unconverted(x) == [k |-> "rat", n |-> x, d |-> 1]

\* C5: when financialCurrency is absent or equals USD the conversion rate
\* is exactly 1.0, no exchange-rate request is made, and every monetary
\* aggregate of the snapshot equals its unconverted value.
C5_UsdIsIdentity ==
    (RateChosen /\ inp.resp.info.financialCurrency \in {Absent, Str(USD)})
    => /\ out.fx_rate = Num(100)
       /\ ~out.fx_requested
       /\ Emitted =>
            LET d == out.data
                cf == inp.resp.q_cashflow
                bs == inp.resp.q_balance
                col(keys) == IF DfEmpty(bs) THEN Num(0) ELSE FirstInColumn(bs, keys, 1)
                same(v, raw) == IF raw.k = "nan" THEN v = NaN ELSE v = Unconverted(raw.v)
            IN /\ d.revenue_ttm = Unconverted(get_ttm_value(inp.resp.q_income, REVENUE_KEYS))
               /\ d.ocf_ttm = Unconverted(get_ttm_value(cf,
                     <<"Operating Cash Flow", "Total Cash From Operating Activities">>))
               /\ d.capex_ttm = Unconverted(Abs(get_ttm_value(cf,
                     <<"Capital Expenditure", "Capital Expenditures">>)))
               /\ d.sbc_ttm = Unconverted(get_ttm_value(cf,
                     <<"Stock Based Compensation", "Issuance Of Stock">>))
               /\ d.buyback_ttm = Unconverted(Abs(get_ttm_value(cf,
                     <<"Repurchase Of Capital Stock", "Common Stock Repurchased",
                       "Purchase Of Treasury Stock">>)))
               /\ same(d.total_debt, col(<<"Total Debt", "Long Term Debt">>))
               /\ same(d.cash_and_equivalents,
                       col(<<"Cash And Cash Equivalents", "Cash Financial">>))

\* a USD security whose provider would quote 32.5 if asked: revenue 400
\* stays 400
C5_Witness ==
    /\ Emitted
    /\ inp.resp.info.financialCurrency = Str(USD)
    /\ inp.resp.fx = GoodQuote
    /\ inp.resp.q_income = FullIncome
    /\ out.data.revenue_ttm = Unconverted(400)
    /\ out.data.capex_ttm = Unconverted(40)
    /\ ~out.fx_requested

\* the provider's rate request raises, or the first of currentPrice,
\* regularMarketPrice, previousClose that holds a non-zero number is
\* negative, or none of them does
BadFxAnswer(fx) ==
    \/ fx = Raise
    \/ LET v == <<fx.currentPrice, fx.regularMarketPrice, fx.previousClose>>
           given == {i \in 1..3 : v[i].k = "num" /\ v[i].v # 0}
       IN \/ given = {}
          \/ v[CHOOSE i \in given : \A j \in given : i <= j].v < 0

\* C6: the FX lookup is fail-open: for a non-USD currency a request that
\* raises or gives an absent, zero or negative value makes
\* get_exchange_rate return 1.0; the rate fetch_stock_data divides by is
\* strictly positive, and an FX failure never makes it reject the security
\* (whenever it returns None with a failed lookup it returns None with a
\* good one as well).
C6_FxFailOpen ==
    /\ Returned("get_exchange_rate")
       => /\ out.rate > 0
          /\ (out.requested /\ BadFxAnswer(inp.fx)) => out.rate = 100
    /\ RateChosen
       => /\ out.fx_rate.v > 0
          /\ (out.fx_requested /\ BadFxAnswer(inp.resp.fx))
              => /\ out.fx_rate = Num(100)
                 /\ out.data = NoneV
                      => fetch_stock_data(inp.ticker,
                                          [inp.resp EXCEPT !.fx = GoodQuote]) = NoneV

\* a TWD security whose quote is negative is emitted, converted at 1.0
C6_Witness ==
    /\ Emitted
    /\ out.fx_requested
    /\ inp.resp.fx = Quote(Num(-725), Num(3250), Absent)
    /\ out.fx_rate = Num(100)
    /\ out.data.revenue_ttm = Unconverted(400)

\* the info request and the statement requests of the security succeed
ProviderCallsSucceed ==
    /\ inp.resp.info # Raise
    /\ "raise" \notin {inp.resp.q_income.k, inp.resp.q_cashflow.k, inp.resp.q_balance.k}

\* C9: missing data is never surfaced as an error: for every security
\* whose provider calls succeed, whatever info field, statement row or
\* table is absent (or present with no value), fetch_stock_data returns a
\* snapshot.
C9_MissingDataNeverRejects ==
    (Returned("fetch_stock_data") /\ ProviderCallsSucceed) => out.data.k = "data"

-----------------------------------------------------------------------------
(* Properties of the script, checked under Spec.                           *)

CallsIn(t, r) == {i \in DOMAIN calls[t] : calls[t][i].run = r}

\* the runs of main() that have written their manifest and returned
ReturnedRuns == {r \in 1..run : r < run \/ pc \in {"main", "exit"}}

\* C1: a failure while processing one ticker is confined to that ticker:
\* it does not end the run, a run writes no snapshot file for a ticker
\* whose fetch failed in it, a run that has returned has fetched every
\* ticker and written the manifest, and every snapshot file holds what the
\* provider's data for that ticker alone gives, as if nothing had failed.
C1_FailureIsolated ==
    /\ pc # "crashed"
    /\ \A t \in AllTickers : \A i \in DOMAIN calls[t] :
         calls[t][i].ret = "none"
         => ~(data_dir[t].k = "file" /\ data_dir[t].mtime = calls[t][i].run)
    /\ \A r \in ReturnedRuns :
         /\ \A t \in unique_tickers : CallsIn(t, r) # {}
         /\ manifest # NoFile /\ manifest.run >= r
    /\ (run >= 1 /\ pc \in {"main", "exit"})
         => manifest = [lists |-> list_map, run |-> run, updated |-> success_count]
    /\ \A t \in AllTickers :
         data_dir[t].k = "file"
         => data_dir[t].content = fetch_stock_data(t, ProviderData(t))

\* the script has ended; in its last run one ticker failed, another
\* ticker's file was written by that run, and the manifest is there
C1_Witness ==
    /\ pc = "exit"
    /\ manifest # NoFile /\ manifest.run = MAIN_BLOCKS
    /\ \E t1 \in unique_tickers, t2 \in unique_tickers :
         /\ t1 # t2
         /\ \E i \in CallsIn(t1, MAIN_BLOCKS) : calls[t1][i].ret = "none"
         /\ data_dir[t1] = NoFile
         /\ data_dir[t2].k = "file" /\ data_dir[t2].mtime = MAIN_BLOCKS

\* C10: in one execution of the script each unique ticker is processed
\* exactly once: fetch_stock_data is called once per ticker and its file
\* written at most once, and the final success count is the number of
\* distinct tickers for which a snapshot was produced.
C10_EachTickerOnce ==
    /\ \A t \in AllTickers : Len(calls[t]) <= 1
    /\ \A t \in AllTickers :
         Cardinality({i \in DOMAIN calls[t] : calls[t][i].ret = "data"}) <= 1
    /\ pc = "exit"
         => /\ \A t \in unique_tickers : Len(calls[t]) = 1
            /\ success_count =
                 Cardinality({t \in AllTickers :
                                \E i \in DOMAIN calls[t] : calls[t][i].ret = "data"})

=============================================================================
